---- MODULE Spec2Model ----
(***************************************************************************)
(* Model of web_scanner.py: the Scanner class (scan, scan_organic_pages,   *)
(* scan_page) and main().  Strings are sequences of one-character strings, *)
(* so that prefix tests, substring tests, concatenation and the            *)
(* case-insensitive keyword search are computed, not assumed.              *)
(***************************************************************************)
EXTENDS Integers, Sequences, FiniteSets, TLC

----------------------------------------------------------------------------
(* Bounds *)

\* number of entries of the keyword list the model probes and searches for
MaxKeywords == 2

----------------------------------------------------------------------------
(* Strings *)

\* str.startswith(p)
StartsWith(s, p) ==
    /\ Len(p) <= Len(s)
    /\ SubSeq(s, 1, Len(p)) = p

\* Python's "p in s" for strings
Contains(s, p) ==
    \E i \in 0..(Len(s) - Len(p)) : SubSeq(s, i + 1, i + Len(p)) = p

LowerMap ==
    ("A" :> "a") @@ ("B" :> "b") @@ ("C" :> "c") @@ ("D" :> "d") @@
    ("E" :> "e") @@ ("F" :> "f") @@ ("G" :> "g") @@ ("H" :> "h") @@
    ("I" :> "i") @@ ("J" :> "j") @@ ("K" :> "k") @@ ("L" :> "l") @@
    ("M" :> "m") @@ ("N" :> "n") @@ ("O" :> "o") @@ ("P" :> "p") @@
    ("Q" :> "q") @@ ("R" :> "r") @@ ("S" :> "s") @@ ("T" :> "t") @@
    ("U" :> "u") @@ ("V" :> "v") @@ ("W" :> "w") @@ ("X" :> "x") @@
    ("Y" :> "y") @@ ("Z" :> "z")

\* case folding of re.IGNORECASE, on the characters the model uses
Lower(s) ==
    [i \in 1..Len(s) |-> IF s[i] \in DOMAIN LowerMap THEN LowerMap[s[i]] ELSE s[i]]

----------------------------------------------------------------------------
(* Program constants *)

\* self.keywords as written in __init__
KeywordList ==
    << <<"a","d","m","i","n">>,
       <<"l","o","g","i","n">>,
       <<"p","a","s","s","w","o","r","d">>,
       <<"a","d","m","i","n","_","p","a","n","e","l">>,
       <<"d","a","s","h","b","o","a","r","d">>,
       <<"c","o","n","t","r","o","l","_","p","a","n","e","l">>,
       <<"m","e","m","b","e","r","s">>,
       <<"s","e","c","u","r","e">>,
       <<"a","c","c","o","u","n","t">>,
       <<"a","u","t","h">>,
       <<"m","a","n","a","g","e","r">>,
       <<"c","o","n","f","i","d","e","n","t","i","a","l">>,
       <<"r","e","s","t","r","i","c","t","e","d">>,
       <<"p","r","i","v","a","t","e">>,
       <<"s","e","c","r","e","t">>,
       <<"b","a","c","k","u","p">>,
       <<"c","o","n","f","i","g">> >>

\* the prefix of self.keywords the model works with
keywords == SubSeq(KeywordList, 1, MaxKeywords)

----------------------------------------------------------------------------
(* The inputs: targets, whitelists and the site the server serves *)

Http == <<"h","t","t","p">>
UrlT == Http \o <<":","/","/","t">>
UrlA == UrlT \o <<"/","a">>
UrlB == UrlT \o <<"/","b">>
UrlW == UrlT \o <<"/","w">>
UrlAdmin == UrlT \o <<"/","a","d","m","i","n">>
\* an external link: the target is not a substring of it
UrlX == Http \o <<":","/","/","x">>
\* contains the target but does not start with "http"
UrlFtp == <<"f","t","p",":">> \o UrlT
\* starts with "http" and contains the target, but its scheme is not http(s)
UrlHttpx == <<"h","t","t","p","x",":">> \o UrlT
\* a target without a scheme
UrlBare == <<"t">>
\* an anchor without href: a.attrs.get("href") is None
None == <<"None">>

Targets == {UrlT, UrlBare}

Whitelists ==
    { <<>>,
      << <<"/","w">> >>,
      << <<"/","a","d","m","i","n">> >>,
      << <<"/","w">>, <<"/","b">> >> }

\* a page: the href of each anchor in source order, and the text around them
Page(anchors, words) == [anchors |-> anchors, words |-> words]

Pages ==
    { Page(<<UrlA, UrlB>>, <<"A","d","m","i","n">>),
      Page(<<UrlB, UrlA>>, <<"A","d","m","i","n">>),
      Page(<<UrlT>>, <<"L","o","g","i","n">>),
      Page(<<UrlW, UrlX, UrlHttpx, UrlFtp, <<>>, None>>, <<"z","z">>),
      Page(<<UrlAdmin, UrlA, UrlA>>, <<>>),
      Page(<<>>, <<"A","D","M","I","N">>) }

LeafPages ==
    { Page(<<>>, <<"L","o","g","i","n">>),
      Page(<<UrlT, UrlA>>, <<"z","z">>) }

\* the page served at every other URL
OtherPage == Page(<<>>, <<"l","o","g","i","n">>)

Failure == [ok |-> FALSE, status_code |-> 0, page |-> Page(<<>>, <<>>)]
Answer(status, page) == [ok |-> TRUE, status_code |-> status, page |-> page]

ProbeStatuses == {200, 404}

----------------------------------------------------------------------------
(* State *)

VARIABLES
    target_url,       \* self.target_url
    whitelist,        \* self.whitelist
    viewed_pages,     \* self.viewed_pages
    sensitive_pages,  \* self.sensitive_pages
    server,           \* the site: the response of each URL (fixed per run)
    pc,               \* position in main()/scan()
    kw,               \* index of the next keyword of scan_organic_pages
    stack,            \* the active scan_page calls, innermost first
    printed,          \* main() printed "Failed to access the given URL"
    report,           \* the lines written to sensitive_pages.txt
    requests,         \* every requests.get issued so far, in order
    run,              \* which top-level scan_page(target_url) call this is
    first             \* sensitive_pages when the first such call returned

vars == <<target_url, whitelist, viewed_pages, sensitive_pages, server, pc,
          kw, stack, printed, report, requests, run, first>>

----------------------------------------------------------------------------
(* The network: requests.get and the parsed response *)

\* the probe URL of scan_organic_pages: target_url + "/" + keyword
ProbeUrlOf(tgt, keyword) == tgt \o <<"/">> \o keyword

Urls(tgt) ==
    {UrlT, UrlA, UrlB, UrlW, UrlX, UrlFtp, UrlHttpx, tgt}
        \cup {ProbeUrlOf(tgt, keywords[i]) : i \in 1..Len(keywords)}

\* The site of one run.  down: the URLs whose request fails; pst: per keyword,
\* the status of its probe URL, 0 for a failing request; tst: the status of
\* the target's own page.
Site(tgt, pT, pA, pB, down, pst, tst) ==
    [u \in Urls(tgt) |->
        IF u \in down THEN Failure
        ELSE IF \E i \in 1..Len(keywords) : u = ProbeUrlOf(tgt, keywords[i])
        THEN LET i == CHOOSE j \in 1..Len(keywords) : u = ProbeUrlOf(tgt, keywords[j])
             IN  IF pst[i] = 0 THEN Failure ELSE Answer(pst[i], OtherPage)
        ELSE IF u = UrlT THEN Answer(tst, pT)
        ELSE IF u = UrlA THEN Answer(200, pA)
        ELSE IF u = UrlB THEN Answer(200, pB)
        ELSE Answer(200, OtherPage)]

\* requests has a connection adapter for http:// and https:// only; any other
\* URL raises MissingSchema / InvalidSchema (both RequestException)
HasAdapter(url) ==
    \/ StartsWith(Lower(url), <<"h","t","t","p",":","/","/">>)
    \/ StartsWith(Lower(url), <<"h","t","t","p","s",":","/","/">>)

\* requests.get(url): the response, or Failure for a RequestException
Get(url) == IF HasAdapter(url) /\ url \in DOMAIN server THEN server[url] ELSE Failure

RECURSIVE Render(_)
\* the markup of the anchors of a page
Render(anchors) ==
    IF anchors = <<>> THEN <<>>
    ELSE (IF Head(anchors) = None
          THEN <<"<","a",">">>
          ELSE <<"<","a"," ","h","r","e","f","=","'">> \o Head(anchors) \o <<"'",">">>)
         \o Render(Tail(anchors))

\* response.text
Text(response) == Render(response.page.anchors) \o response.page.words

\* [a.attrs.get("href") for a in soup.find_all("a")]
SoupLinks(response) == response.page.anchors

----------------------------------------------------------------------------
(* Scanner *)

ProbeUrl(keyword) == ProbeUrlOf(target_url, keyword)

\* the status test dropped: every answered probe counts as a hit
ProbeHit_AnyStatus(response) == response.ok

\* scan_organic_pages: if response.status_code == 200
ProbeHit(response) == response.status_code = 200

\* scan_page: link and link.startswith("http") and self.target_url in link
InScope(link) ==
    /\ link # None
    /\ link # <<>>
    /\ StartsWith(link, Http)
    /\ Contains(link, target_url)

\* only the first whitelist entry is consulted
NotWhitelisted_FirstOnly(link) ==
    ~ \E i \in 1..Len(whitelist) : i = 1 /\ Contains(link, whitelist[i])

\* scan_page: not any(w in link for w in self.whitelist)
NotWhitelisted(link) ==
    ~ \E i \in 1..Len(whitelist) : Contains(link, whitelist[i])

\* scan_page: the two filters applied to the extracted links
Links(response) ==
    SelectSeq(SelectSeq(SoupLinks(response), InScope), NotWhitelisted)

\* the search without re.IGNORECASE
SensitivePage_CaseSensitive(text) ==
    \E i \in 1..Len(keywords) : Contains(text, keywords[i])

\* the search with an empty alternative in the pattern, which matches any text
SensitivePage_EmptyAlternative(text) ==
    \E i \in 1..(Len(keywords) + 1) :
        Contains(Lower(text), IF i <= Len(keywords) THEN Lower(keywords[i]) ELSE <<>>)

\* scan_page: re.search("|".join(self.keywords), response.text, re.IGNORECASE)
SensitivePage(text) ==
    \E i \in 1..Len(keywords) : Contains(Lower(text), Lower(keywords[i]))

\* a scan_page call that has not issued its request yet
Call(url) == [url |-> url, at |-> "get", links |-> <<>>, text |-> <<>>]

Request(by, url, response) ==
    [by |-> by, url |-> url, ok |-> response.ok, status_code |-> response.status_code]

----------------------------------------------------------------------------
(* Initial state *)

Init ==
    \E tgt \in Targets, wl \in Whitelists, pT \in Pages, pA \in Pages,
       pB \in LeafPages, down \in {{}, {UrlA}, {UrlT}},
       pst \in [1..Len(keywords) -> ProbeStatuses \cup {0}],
       tst \in {200, 404} :
        /\ tgt = UrlBare =>
              /\ wl = <<>> /\ down = {} /\ tst = 200
              /\ pT = Page(<<>>, <<"A","D","M","I","N">>) /\ pA = pT
              /\ pB = Page(<<>>, <<"L","o","g","i","n">>)
              /\ \A i \in 1..Len(keywords) : pst[i] = 200
        /\ target_url = tgt
        /\ whitelist = wl
        /\ server = Site(tgt, pT, pA, pB, down, pst, tst)
        /\ viewed_pages = {}
        /\ sensitive_pages = {}
        /\ pc = "main"
        /\ kw = 1
        /\ stack = <<>>
        /\ printed = FALSE
        /\ report = {}
        /\ requests = <<>>
        /\ run = 1
        /\ first = {}

----------------------------------------------------------------------------
(* main *)

\* main: the validation request; a failure is printed and the scan goes on
Main ==
    /\ pc = "main"
    /\ LET response == Get(target_url) IN
        /\ printed' = (~response.ok \/ response.status_code >= 400)
        /\ requests' = Append(requests, Request("main", target_url, response))
    /\ pc' = "organic"
    /\ UNCHANGED <<target_url, whitelist, viewed_pages, sensitive_pages, server,
                   kw, stack, report,
                   run, first>>

----------------------------------------------------------------------------
(* scan_organic_pages *)

\* one iteration of the keyword loop; requests.get is not guarded, so a
\* RequestException leaves scan_organic_pages, scan and main
ScanOrganicPages ==
    /\ pc = "organic"
    /\ kw <= Len(keywords)
    /\ LET url == ProbeUrl(keywords[kw])
           response == Get(url)
       IN  /\ requests' = Append(requests, Request("organic", url, response))
           /\ IF response.ok
              THEN /\ sensitive_pages' = IF ProbeHit(response)
                                         THEN sensitive_pages \cup {url}
                                         ELSE sensitive_pages
                   /\ kw' = kw + 1
                   /\ pc' = pc
              ELSE /\ pc' = "raised"
                   /\ UNCHANGED <<sensitive_pages, kw>>
    /\ UNCHANGED <<target_url, whitelist, viewed_pages, server, stack, printed,
                   report,
                   run, first>>

\* the crawl starts one keyword early
OrganicDone_Early == kw >= Len(keywords)

\* scan: scan_organic_pages() has returned
OrganicDone == kw > Len(keywords)

\* scan: self.scan_page(self.target_url)
ScanCallScanPage ==
    /\ pc = "organic"
    /\ OrganicDone
    /\ stack' = <<Call(target_url)>>
    /\ pc' = "crawl"
    /\ UNCHANGED <<target_url, whitelist, viewed_pages, sensitive_pages, server,
                   kw, printed, report, requests,
                   run, first>>

----------------------------------------------------------------------------
(* scan_page *)

\* a response with a status other than 200 treated like a failed request
ScanPageGetOk_RaiseForStatus ==
    /\ pc = "crawl"
    /\ stack # <<>>
    /\ Head(stack).at = "get"
    /\ LET url == Head(stack).url
           response == Get(url)
       IN  /\ response.ok
           /\ requests' = Append(requests, Request("crawl", url, response))
           /\ stack' = IF response.status_code = 200
                       THEN <<[url |-> url, at |-> "loop",
                               links |-> Links(response),
                               text |-> Text(response)]>> \o Tail(stack)
                       ELSE Tail(stack)
    /\ UNCHANGED <<target_url, whitelist, viewed_pages, sensitive_pages, server,
                   pc, kw, printed, report, run, first>>

\* the keyword search done right after the request, before the link loop
ScanPageGetOk_ClassifiesFirst ==
    /\ pc = "crawl"
    /\ stack # <<>>
    /\ Head(stack).at = "get"
    /\ LET url == Head(stack).url
           response == Get(url)
       IN  /\ response.ok
           /\ requests' = Append(requests, Request("crawl", url, response))
           /\ sensitive_pages' = IF SensitivePage(Text(response))
                                 THEN sensitive_pages \cup {url}
                                 ELSE sensitive_pages
           /\ stack' = <<[url |-> url, at |-> "loop",
                          links |-> Links(response),
                          text |-> Text(response)]>> \o Tail(stack)
    /\ UNCHANGED <<target_url, whitelist, viewed_pages, server,
                   pc, kw, printed, report, run, first>>

\* the request succeeded: parse, extract and filter the links
ScanPageGetOk ==
    /\ pc = "crawl"
    /\ stack # <<>>
    /\ Head(stack).at = "get"
    /\ LET url == Head(stack).url
           response == Get(url)
       IN  /\ response.ok
           /\ requests' = Append(requests, Request("crawl", url, response))
           /\ stack' = <<[url |-> url, at |-> "loop",
                          links |-> Links(response),
                          text |-> Text(response)]>> \o Tail(stack)
    /\ UNCHANGED <<target_url, whitelist, viewed_pages, sensitive_pages, server,
                   pc, kw, printed, report,
                   run, first>>

\* the request of scan_page left unguarded, as in scan_organic_pages
ScanPageGetFail_Raises ==
    /\ pc = "crawl"
    /\ stack # <<>>
    /\ Head(stack).at = "get"
    /\ LET url == Head(stack).url
           response == Get(url)
       IN  /\ ~response.ok
           /\ requests' = Append(requests, Request("crawl", url, response))
    /\ pc' = "raised"
    /\ UNCHANGED <<target_url, whitelist, viewed_pages, sensitive_pages, server,
                   stack, kw, printed, report,
                   run, first>>

\* the exception caught one level up: the calling page's loop ends too
ScanPageGetFail_DropsCaller ==
    /\ pc = "crawl"
    /\ stack # <<>>
    /\ Head(stack).at = "get"
    /\ LET url == Head(stack).url
           response == Get(url)
       IN  /\ ~response.ok
           /\ requests' = Append(requests, Request("crawl", url, response))
    /\ stack' = IF Len(stack) >= 2 THEN Tail(Tail(stack)) ELSE <<>>
    /\ UNCHANGED <<target_url, whitelist, viewed_pages, sensitive_pages, server,
                   pc, kw, printed, report, run, first>>

\* except requests.exceptions.RequestException: return
ScanPageGetFail ==
    /\ pc = "crawl"
    /\ stack # <<>>
    /\ Head(stack).at = "get"
    /\ LET url == Head(stack).url
           response == Get(url)
       IN  /\ ~response.ok
           /\ requests' = Append(requests, Request("crawl", url, response))
    /\ stack' = Tail(stack)
    /\ UNCHANGED <<target_url, whitelist, viewed_pages, sensitive_pages, server,
                   pc, kw, printed, report,
                   run, first>>

\* the page's own URL is recorded instead of the link
ScanPageFollow_AddsParent ==
    /\ pc = "crawl"
    /\ stack # <<>>
    /\ Head(stack).at = "loop"
    /\ Head(stack).links # <<>>
    /\ LET link == Head(Head(stack).links)
           rest == [Head(stack) EXCEPT !.links = Tail(@)]
       IN  /\ link \notin viewed_pages
           /\ viewed_pages' = viewed_pages \cup {Head(stack).url}
           /\ stack' = <<Call(link), rest>> \o Tail(stack)
    /\ UNCHANGED <<target_url, whitelist, sensitive_pages, server, pc, kw,
                   printed, report, requests, run, first>>

\* the link is recorded but the recursive call is missing
ScanPageFollow_NoRecurse ==
    /\ pc = "crawl"
    /\ stack # <<>>
    /\ Head(stack).at = "loop"
    /\ Head(stack).links # <<>>
    /\ LET link == Head(Head(stack).links)
           rest == [Head(stack) EXCEPT !.links = Tail(@)]
       IN  /\ link \notin viewed_pages
           /\ viewed_pages' = viewed_pages \cup {link}
           /\ stack' = <<rest>> \o Tail(stack)
    /\ UNCHANGED <<target_url, whitelist, sensitive_pages, server, pc, kw,
                   printed, report, requests, run, first>>

\* for link in links: the link is new, so it is recorded and scanned
ScanPageFollow ==
    /\ pc = "crawl"
    /\ stack # <<>>
    /\ Head(stack).at = "loop"
    /\ Head(stack).links # <<>>
    /\ LET link == Head(Head(stack).links)
           rest == [Head(stack) EXCEPT !.links = Tail(@)]
       IN  /\ link \notin viewed_pages
           /\ viewed_pages' = viewed_pages \cup {link}
           /\ stack' = <<Call(link), rest>> \o Tail(stack)
    /\ UNCHANGED <<target_url, whitelist, sensitive_pages, server, pc, kw,
                   printed, report, requests,
                   run, first>>

\* the loop does not advance past a link that is in viewed_pages
ScanPageSkip_Stuck ==
    /\ pc = "crawl"
    /\ stack # <<>>
    /\ Head(stack).at = "loop"
    /\ Head(stack).links # <<>>
    /\ Head(Head(stack).links) \in viewed_pages
    /\ UNCHANGED vars

\* for link in links: the link is in viewed_pages already
ScanPageSkip ==
    /\ pc = "crawl"
    /\ stack # <<>>
    /\ Head(stack).at = "loop"
    /\ Head(stack).links # <<>>
    /\ Head(Head(stack).links) \in viewed_pages
    /\ stack' = <<[Head(stack) EXCEPT !.links = Tail(@)]>> \o Tail(stack)
    /\ UNCHANGED <<target_url, whitelist, viewed_pages, sensitive_pages, server,
                   pc, kw, printed, report, requests,
                   run, first>>

\* the response kept in one place shared by all calls: after the loop the
\* search runs over the body that was received last
ScanPageClassify_SharedResponse ==
    /\ pc = "crawl"
    /\ stack # <<>>
    /\ Head(stack).at = "loop"
    /\ Head(stack).links = <<>>
    /\ LET oks == {i \in DOMAIN requests : requests[i].by = "crawl" /\ requests[i].ok}
           last == CHOOSE i \in oks : \A j \in oks : j <= i
       IN  sensitive_pages' = IF SensitivePage(Text(Get(requests[last].url)))
                              THEN sensitive_pages \cup {Head(stack).url}
                              ELSE sensitive_pages
    /\ stack' = Tail(stack)
    /\ UNCHANGED <<target_url, whitelist, viewed_pages, server, pc, kw, printed,
                   report, requests, run, first>>

\* the URL added whatever the search returns
ScanPageClassify_NoTest ==
    /\ pc = "crawl"
    /\ stack # <<>>
    /\ Head(stack).at = "loop"
    /\ Head(stack).links = <<>>
    /\ sensitive_pages' = sensitive_pages \cup {Head(stack).url}
    /\ stack' = Tail(stack)
    /\ UNCHANGED <<target_url, whitelist, viewed_pages, server, pc, kw, printed,
                   report, requests, run, first>>

\* the hit assigned to sensitive_pages instead of added to it
ScanPageClassify_Assigns ==
    /\ pc = "crawl"
    /\ stack # <<>>
    /\ Head(stack).at = "loop"
    /\ Head(stack).links = <<>>
    /\ sensitive_pages' = IF SensitivePage(Head(stack).text)
                          THEN {Head(stack).url}
                          ELSE sensitive_pages
    /\ stack' = Tail(stack)
    /\ UNCHANGED <<target_url, whitelist, viewed_pages, server, pc, kw, printed,
                   report, requests,
                   run, first>>

\* after the loop: the keyword search over the body, then return
ScanPageClassify ==
    /\ pc = "crawl"
    /\ stack # <<>>
    /\ Head(stack).at = "loop"
    /\ Head(stack).links = <<>>
    /\ sensitive_pages' = IF SensitivePage(Head(stack).text)
                          THEN sensitive_pages \cup {Head(stack).url}
                          ELSE sensitive_pages
    /\ stack' = Tail(stack)
    /\ UNCHANGED <<target_url, whitelist, viewed_pages, server, pc, kw, printed,
                   report, requests,
                   run, first>>

----------------------------------------------------------------------------
(* scan: the report *)

\* scan_page(target_url) has returned: write the two files
ScanReport ==
    /\ pc = "crawl"
    /\ stack = <<>>
    /\ report' = sensitive_pages
    /\ pc' = "done"
    /\ UNCHANGED <<target_url, whitelist, viewed_pages, sensitive_pages, server,
                   kw, stack, printed, requests,
                   run, first>>

----------------------------------------------------------------------------

Next ==
    \/ Main
    \/ ScanOrganicPages
    \/ ScanCallScanPage
    \/ ScanPageGetOk
    \/ ScanPageGetFail
    \/ ScanPageFollow
    \/ ScanPageSkip
    \/ ScanPageClassify
    \/ ScanReport

Spec == Init /\ [][Next]_vars

\* one thread runs main() to its end: a step that can be taken is taken
FairSpec == Spec /\ WF_vars(Next)

----------------------------------------------------------------------------
(* scan_page used on an instance, twice from the same start URL *)

\* Scanner(target_url, whitelist).scan_page(target_url)
InitTwice ==
    \E wl \in Whitelists, pT \in Pages, pA \in Pages, pB \in LeafPages,
       down \in {{}, {UrlA}, {UrlT}},
       pst \in [1..Len(keywords) -> {200, 0}], tst \in {200, 404} :
        /\ target_url = UrlT
        /\ whitelist = wl
        /\ server = Site(UrlT, pT, pA, pB, down, pst, tst)
        /\ viewed_pages = {}
        /\ sensitive_pages = {}
        /\ pc = "crawl"
        /\ kw = 1
        /\ stack = <<Call(UrlT)>>
        /\ printed = FALSE
        /\ report = {}
        /\ requests = <<>>
        /\ run = 1
        /\ first = {}

\* the first call has returned: scan_page(target_url) again on the same scanner
SecondScanPage ==
    /\ pc = "crawl"
    /\ stack = <<>>
    /\ run = 1
    /\ run' = 2
    /\ first' = sensitive_pages
    /\ stack' = <<Call(target_url)>>
    /\ UNCHANGED <<target_url, whitelist, viewed_pages, sensitive_pages, server,
                   pc, kw, printed, report, requests>>

\* the first call has returned: scan_page(target_url) on a new Scanner, whose
\* viewed_pages and sensitive_pages are empty
SecondScanFresh ==
    /\ pc = "crawl"
    /\ stack = <<>>
    /\ run = 1
    /\ run' = 2
    /\ first' = sensitive_pages
    /\ viewed_pages' = {}
    /\ sensitive_pages' = {}
    /\ stack' = <<Call(target_url)>>
    /\ UNCHANGED <<target_url, whitelist, server, pc, kw, printed, report,
                   requests>>

NextTwice ==
    \/ ScanPageGetOk
    \/ ScanPageGetFail
    \/ ScanPageFollow
    \/ ScanPageSkip
    \/ ScanPageClassify
    \/ SecondScanPage
    \/ SecondScanFresh

SpecTwice == InitTwice /\ [][NextTwice]_vars

----------------------------------------------------------------------------
(* The worklist traversal of the design notes *)

RECURSIVE WorklistEnqueue(_, _, _)
\* enqueue the links that are not in the visited set, inserting each
WorklistEnqueue(links, frontier, visited) ==
    IF links = <<>> THEN [frontier |-> frontier, visited |-> visited]
    ELSE IF Head(links) \in visited
    THEN WorklistEnqueue(Tail(links), frontier, visited)
    ELSE WorklistEnqueue(Tail(links), Append(frontier, Head(links)),
                         visited \cup {Head(links)})

RECURSIVE Worklist(_, _, _, _, _)
\* take a URL from the frontier (the newest for a stack, the oldest for a
\* queue), fetch it, enqueue its links, classify it; until the frontier is empty
Worklist(frontier, visited, fetched, sensitive, lifo) ==
    IF frontier = <<>> THEN [fetched |-> fetched, sensitive |-> sensitive]
    ELSE LET u == IF lifo THEN frontier[Len(frontier)] ELSE Head(frontier)
             rest == IF lifo THEN SubSeq(frontier, 1, Len(frontier) - 1)
                             ELSE Tail(frontier)
             response == Get(u)
         IN  IF ~response.ok
             THEN Worklist(rest, visited, fetched \cup {u}, sensitive, lifo)
             ELSE LET e == WorklistEnqueue(Links(response), rest, visited)
                  IN  Worklist(e.frontier, e.visited, fetched \cup {u},
                               IF SensitivePage(Text(response))
                               THEN sensitive \cup {u} ELSE sensitive,
                               lifo)

\* the worklist traversal from the start URL
WorklistCrawl(start, lifo) == Worklist(<<start>>, {start}, {}, {}, lifo)

----------------------------------------------------------------------------
(* Vocabulary of the properties *)

Min(S) == CHOOSE x \in S : \A y \in S : x <= y

\* the positions of the log that are requests of the crawl (scan_page)
CrawlRequests == {i \in DOMAIN requests : requests[i].by = "crawl"}

\* the positions of the log that are requests of the Path Prober
OrganicRequests == {i \in DOMAIN requests : requests[i].by = "organic"}

\* some whitelist entry is a substring of l
Whitelisted(l) ==
    \E i \in 1..Len(whitelist) :
        \E off \in 0..(Len(l) - Len(whitelist[i])) :
            \A j \in 1..Len(whitelist[i]) : l[off + j] = whitelist[i][j]

\* text contains a keyword token, compared case-insensitively
HasToken(text) ==
    \E k \in 1..Len(keywords) :
        \E off \in 0..(Len(text) - Len(keywords[k])) :
            \A j \in 1..Len(keywords[k]) :
                Lower(<<text[off + j]>>) = <<keywords[k][j]>>

\* the path of a URL: from the first "/" after "scheme://host" on
PathOf(u) ==
    LET dbl == {i \in 1..(Len(u) - 1) : u[i] = "/" /\ u[i + 1] = "/"}
        from == IF dbl = {} THEN 1 ELSE Min(dbl) + 2
        sl == {i \in from..Len(u) : u[i] = "/"}
    IN  IF sl = {} THEN <<>> ELSE SubSeq(u, Min(sl), Len(u))

\* the body the server sends for u
BodyOf(u) == Text(Get(u))

\* l starts with the scheme http:// or https://
HasHttpScheme(l) ==
    \/ Len(l) >= 7 /\ SubSeq(l, 1, 7) = <<"h","t","t","p",":","/","/">>
    \/ Len(l) >= 8 /\ SubSeq(l, 1, 8) = <<"h","t","t","p","s",":","/","/">>

----------------------------------------------------------------------------
(* C1 .. C10 *)

\* C1: during one scan the crawl requests every URL at most once, also when a
\* page links back to the start URL.
C1_FetchedAtMostOnce ==
    \A i, j \in CrawlRequests : requests[i].url = requests[j].url => i = j

\* C2: a URL that contains a whitelist entry is never requested by scan() (by
\* a probe or by the crawl), never in viewed_pages and never in
\* sensitive_pages.
C2_WhitelistExclusion ==
    \A l \in {requests[i].url : i \in OrganicRequests \cup CrawlRequests}
                \cup viewed_pages \cup sensitive_pages : ~Whitelisted(l)

\* C3: a probe whose request fails adds nothing, raises nothing, and the
\* remaining keywords are probed before the crawl runs.
C3_ProbeFailureLocal ==
    \A i \in OrganicRequests :
        ~requests[i].ok =>
            /\ pc # "raised"
            /\ requests[i].url \notin sensitive_pages
            /\ pc \in {"crawl", "done"} => Cardinality(OrganicRequests) = Len(keywords)

\* C4: a failing GET in scan_page returns to the caller and changes neither
\* sensitive_pages nor viewed_pages; the caller goes on with its remaining
\* links, so that at the end every filtered link of every fetched page has
\* been traversed and every fetched page has been classified.
C4_FetchFailureLocal ==
    /\ [][(/\ pc = "crawl"
           /\ stack # <<>>
           /\ Head(stack).at = "get"
           /\ ~Get(Head(stack).url).ok)
          => (/\ sensitive_pages' = sensitive_pages
              /\ viewed_pages' = viewed_pages
              /\ stack' = Tail(stack)
              /\ pc' = "crawl")]_vars
    /\ [](pc = "done" =>
            \A i \in CrawlRequests :
                requests[i].ok =>
                    /\ \A n \in 1..Len(Links(Get(requests[i].url))) :
                          LET link == Links(Get(requests[i].url))[n]
                          IN  /\ link \in viewed_pages
                              /\ \E j \in CrawlRequests : requests[j].url = link
                    /\ HasToken(BodyOf(requests[i].url))
                          => requests[i].url \in sensitive_pages)

\* C4 witness: the scan has ended, the fetch of a link failed, a later sibling
\* was fetched and the parent was classified as sensitive.
C4_Witness ==
    /\ pc = "done"
    /\ \E i, j \in CrawlRequests :
          /\ i < j
          /\ requests[i].url = UrlA /\ ~requests[i].ok
          /\ requests[j].url = UrlB /\ requests[j].ok
    /\ UrlA \notin sensitive_pages
    /\ target_url \in sensitive_pages

\* C5: when every request of the run fails, the scan raises nothing and ends
\* with an empty result.
C5_AllFailEmptyResult ==
    (\A i \in DOMAIN requests : ~requests[i].ok) =>
        /\ pc # "raised"
        /\ pc = "done" => sensitive_pages = {} /\ report = {}

\* C6: when the scan ends, every URL whose body the crawl fetched and whose
\* body contains a keyword token (case-insensitively) is in sensitive_pages.
C6_KeywordForward ==
    pc = "done" =>
        \A i \in CrawlRequests :
            (requests[i].ok /\ HasToken(BodyOf(requests[i].url)))
                => requests[i].url \in sensitive_pages

\* C6 witness: the scan has ended and the crawl fetched a page whose body has a
\* keyword only in another case than the keyword list.
C6_Witness ==
    /\ pc = "done"
    /\ \E i \in CrawlRequests :
          /\ requests[i].ok
          /\ HasToken(BodyOf(requests[i].url))
          /\ ~ \E k \in 1..Len(keywords) : Contains(BodyOf(requests[i].url), keywords[k])
          /\ requests[i].url \in sensitive_pages

\* C7: a URL with no keyword token in its body and none in its own path is
\* never in sensitive_pages.
C7_KeywordConverse ==
    \A u \in sensitive_pages : HasToken(BodyOf(u)) \/ HasToken(PathOf(u))

\* C7 witness: the crawl has classified a page with no token in body or path,
\* and it is not in sensitive_pages, while the prober and the crawl both added.
C7_Witness ==
    /\ pc = "done"
    /\ \E i \in CrawlRequests :
          /\ requests[i].ok
          /\ ~HasToken(BodyOf(requests[i].url))
          /\ ~HasToken(PathOf(requests[i].url))
          /\ requests[i].url \notin sensitive_pages
    /\ \E u \in sensitive_pages : \E i \in OrganicRequests : requests[i].url = u
    /\ \E u \in sensitive_pages : \E i \in CrawlRequests : requests[i].url = u

\* C8: a link that does not contain the target or does not start with http://
\* or https:// is never added to viewed_pages and never requested by the crawl.
C8_ScopeBoundary ==
    \A l \in viewed_pages \cup {requests[i].url : i \in CrawlRequests} :
        Contains(l, target_url) /\ HasHttpScheme(l)

\* C9: when scan_organic_pages has completed, sensitive_pages is exactly the
\* set of the URLs target + "/" + k whose probe returned status 200.
C9_ProberResult ==
    (pc = "organic" /\ kw > Len(keywords)) =>
        /\ Cardinality(OrganicRequests) = Len(keywords)
        /\ \A n \in 1..Len(keywords) :
              requests[n + 1].url = target_url \o <<"/">> \o keywords[n]
        /\ sensitive_pages =
              {requests[i].url : i \in {j \in OrganicRequests :
                                            requests[j].status_code = 200}}

\* C9 witness: the prober has completed with one probe answered 200 and
\* another answered with a different status.
C9_Witness ==
    /\ pc = "organic"
    /\ kw > Len(keywords)
    /\ \E i, j \in OrganicRequests :
          /\ requests[i].status_code = 200
          /\ requests[j].status_code # 200
          /\ requests[i].url \in sensitive_pages
          /\ requests[j].url \notin sensitive_pages

\* C10: every probe request precedes every crawl request, and no link is
\* inserted into viewed_pages before the last keyword was probed.
C10_PhaseOrdering ==
    /\ \A i \in CrawlRequests : \A j \in OrganicRequests : j < i
    /\ (CrawlRequests # {} \/ viewed_pages # {} \/ stack # <<>>)
          => Cardinality(OrganicRequests) = Len(keywords)

\* C10 witness: the crawl has fetched and recorded links after all probes.
C10_Witness ==
    /\ Cardinality(CrawlRequests) >= 2
    /\ viewed_pages # {}
    /\ Cardinality(OrganicRequests) = Len(keywords)

----------------------------------------------------------------------------
(* C11 .. C20 *)

\* C11: on every site of the model (link cycles and self-links included, every
\* request answering or failing) a crawl that has started eventually returns:
\* the stack of scan_page calls empties.
C11_Termination == (stack # <<>>) ~> (stack = <<>>)

\* C11 witness: the crawl went round a cycle back to the start URL and has
\* returned.
C11_Witness ==
    /\ pc = "done"
    /\ stack = <<>>
    /\ target_url \in viewed_pages
    /\ Cardinality(CrawlRequests) >= 3

\* C12: no step removes an entry from viewed_pages or from sensitive_pages.
C12_MonotonicGrowth ==
    [][/\ viewed_pages \subseteq viewed_pages'
       /\ sensitive_pages \subseteq sensitive_pages']_vars

\* C12 witness: both sets have grown, the prober and the crawl both added to
\* sensitive_pages, and a fetch has failed.
C12_Witness ==
    /\ Cardinality(viewed_pages) >= 2
    /\ \E u \in sensitive_pages : \E i \in OrganicRequests : requests[i].url = u
    /\ \E u \in sensitive_pages :
          /\ \E i \in CrawlRequests : requests[i].url = u
          /\ \A i \in OrganicRequests : requests[i].url # u
    /\ \E i \in CrawlRequests : ~requests[i].ok

\* C13: with the server's responses fixed, a second scan_page(target_url),
\* on the same scanner or on a fresh one, ends with the sensitive_pages the
\* first call ended with.
C13_IdempotentClassification ==
    (run = 2 /\ stack = <<>>) => sensitive_pages = first

\* C13 witness: the second call has returned on a scanner that kept its
\* viewed_pages, after a first call that followed links and flagged pages.
C13_Witness ==
    /\ run = 2
    /\ stack = <<>>
    /\ Cardinality(first) >= 2
    /\ Cardinality(viewed_pages) >= 2
    /\ Cardinality({i \in CrawlRequests : requests[i].url = target_url}) >= 2
    /\ Cardinality({i \in CrawlRequests : requests[i].url = UrlA}) = 1

\* C14: when the recursive scan_page(target_url) has returned, its
\* sensitive_pages and the set of URLs it requested are those of the worklist
\* traversal, with a stack and with a queue as frontier.
C14_WorklistEquivalence ==
    (run = 1 /\ stack = <<>>) =>
        \A lifo \in BOOLEAN :
            /\ sensitive_pages = WorklistCrawl(target_url, lifo).sensitive
            /\ {requests[i].url : i \in CrawlRequests}
                  = WorklistCrawl(target_url, lifo).fetched

\* C14 witness: the recursive crawl has returned after fetching at least
\* three URLs, one of them failing, one of them twice, and flagging two pages.
C14_Witness ==
    /\ run = 1
    /\ stack = <<>>
    /\ Cardinality({requests[i].url : i \in CrawlRequests}) >= 3
    /\ Cardinality(CrawlRequests) > Cardinality({requests[i].url : i \in CrawlRequests})
    /\ \E i \in CrawlRequests : ~requests[i].ok
    /\ Cardinality(sensitive_pages) >= 2

\* C15: every URL of an active scan_page call and every URL the crawl has
\* requested is in viewed_pages, except the start URL; and a link that is in
\* viewed_pages already is passed over without a request and without a call.
C15_InsertBeforeRecurse ==
    /\ [](/\ \A n \in 1..Len(stack) :
                stack[n].url \in viewed_pages \/ stack[n].url = target_url
          /\ \A i \in CrawlRequests :
                requests[i].url \in viewed_pages \/ requests[i].url = target_url)
    /\ [][(/\ pc = "crawl"
           /\ stack # <<>>
           /\ Head(stack).at = "loop"
           /\ Head(stack).links # <<>>
           /\ Head(Head(stack).links) \in viewed_pages)
          => (/\ requests' = requests
              /\ Len(stack') = Len(stack)
              /\ Head(stack').links = Tail(Head(stack).links)
              /\ viewed_pages' = viewed_pages)]_vars

\* C15 witness: a call for a link is about to issue its request, the link is
\* in viewed_pages and the start URL is not; another link was passed over.
C15_Witness ==
    /\ stack # <<>>
    /\ Head(stack).at = "get"
    /\ Head(stack).url # target_url
    /\ Head(stack).url \in viewed_pages
    /\ target_url \notin viewed_pages
    /\ \A i \in CrawlRequests : requests[i].url # Head(stack).url
    /\ Cardinality(CrawlRequests) >= 2

\* C16: sensitive_pages changes during the crawl only by the innermost call
\* adding its own URL when its link loop is over, as it returns; so the URL of
\* a call that is still active is not in sensitive_pages, unless the prober put
\* it there or the URL was crawled more than once.
C16_PostOrderClassification ==
    /\ [][(pc = "crawl" /\ sensitive_pages' # sensitive_pages)
          => (/\ stack # <<>>
              /\ Head(stack).at = "loop"
              /\ Head(stack).links = <<>>
              /\ sensitive_pages' = sensitive_pages \cup {Head(stack).url}
              /\ stack' = Tail(stack))]_vars
    /\ [](pc = "crawl" =>
            \A n \in 1..Len(stack) :
                (/\ Cardinality({i \in CrawlRequests : requests[i].url = stack[n].url}) <= 1
                 /\ \A i \in OrganicRequests : requests[i].url # stack[n].url)
                    => stack[n].url \notin sensitive_pages)

\* C16 witness: a child has been classified and flagged while its parent, whose
\* body has a keyword too, is still in its link loop and not yet flagged.
C16_Witness ==
    /\ pc = "crawl"
    /\ Len(stack) = 1
    /\ Head(stack).at = "loop"
    /\ HasToken(Head(stack).text)
    /\ Head(stack).url \notin sensitive_pages
    /\ \E u \in sensitive_pages : \E i \in CrawlRequests : requests[i].url = u /\ requests[i].ok

\* l passes the scope filter and the whitelist filter of scan_page
Passes(l) ==
    /\ l # None
    /\ Len(l) >= 4
    /\ l[1] = "h" /\ l[2] = "t" /\ l[3] = "t" /\ l[4] = "p"
    /\ \E off \in 0..(Len(l) - Len(target_url)) :
          \A j \in 1..Len(target_url) : l[off + j] = target_url[j]
    /\ ~Whitelisted(l)

\* the links of u's page that pass the filters; none when the request fails
Successors(u) ==
    IF Get(u).ok
    THEN {Get(u).page.anchors[n] : n \in {k \in 1..Len(Get(u).page.anchors) :
                                             Passes(Get(u).page.anchors[k])}}
    ELSE {}

RECURSIVE ReachableFrom(_)
\* the closure of S under Successors
ReachableFrom(S) ==
    LET N == S \cup UNION {Successors(u) : u \in S}
    IN  IF N = S THEN S ELSE ReachableFrom(N)

\* C17: when the crawl has returned, the set of URLs it requested is the start
\* URL and every URL reachable from it by links that pass the filters, through
\* pages that were fetched successfully; a set the anchor order has no part in.
C17_CrawlCompleteness ==
    pc = "done" =>
        {requests[i].url : i \in CrawlRequests} = ReachableFrom({target_url})

\* C17 witness: the crawl has returned after requesting four URLs or more, one
\* of them reached only through another page and one of them failing, while a
\* whitelisted link of a fetched page was left out.
C17_Witness ==
    /\ pc = "done"
    /\ Cardinality({requests[i].url : i \in CrawlRequests}) >= 4
    /\ \E u \in ReachableFrom({target_url}) :
          u # target_url /\ u \notin Successors(target_url)
    /\ \E i \in CrawlRequests : ~requests[i].ok
    /\ UrlW \notin ReachableFrom({target_url})
    /\ \E i \in CrawlRequests :
          \E n \in 1..Len(Get(requests[i].url).page.anchors) :
              Get(requests[i].url).page.anchors[n] = UrlW

\* C18: every member of viewed_pages is a non-empty string that starts with
\* "http", contains target_url and contains no whitelist entry; target_url is
\* a member only if a page the crawl fetched has an anchor to it.
C18_VisitedWellFormed ==
    /\ \A l \in viewed_pages :
          /\ l # None
          /\ Len(l) > 0
          /\ \A c \in 1..Len(l) : l[c] \in STRING
          /\ Len(l) >= 4 /\ SubSeq(l, 1, 4) = <<"h","t","t","p">>
          /\ \E off \in 0..(Len(l) - Len(target_url)) :
                \A j \in 1..Len(target_url) : l[off + j] = target_url[j]
          /\ ~Whitelisted(l)
    /\ target_url \in viewed_pages =>
          \E i \in CrawlRequests :
              /\ requests[i].ok
              /\ \E n \in 1..Len(Get(requests[i].url).page.anchors) :
                    Get(requests[i].url).page.anchors[n] = target_url

\* C18 witness: viewed_pages holds the start URL and another link, with a
\* two-entry whitelist whose second entry kept a link of a fetched page out.
C18_Witness ==
    /\ target_url \in viewed_pages
    /\ Cardinality(viewed_pages) >= 2
    /\ Len(whitelist) = 2
    /\ \E i \in CrawlRequests :
          \E n \in 1..Len(Get(requests[i].url).page.anchors) :
              LET a == Get(requests[i].url).page.anchors[n]
              IN  /\ a = UrlB
                  /\ a \notin viewed_pages

\* C19: every member of sensitive_pages is a probe URL target_url + "/" +
\* keyword whose probe returned 200, or a URL the crawl fetched successfully
\* (the start URL or a member of viewed_pages) whose body has a keyword.
C19_SensitiveProvenance ==
    \A u \in sensitive_pages :
        \/ /\ \E k \in 1..Len(keywords) : u = target_url \o <<"/">> \o keywords[k]
           /\ \E i \in OrganicRequests :
                 requests[i].url = u /\ requests[i].status_code = 200
        \/ /\ \E i \in CrawlRequests : requests[i].url = u /\ requests[i].ok
           /\ u = target_url \/ u \in viewed_pages
           /\ HasToken(BodyOf(u))

\* C19 witness: sensitive_pages holds a probe hit that was not crawled, a
\* crawled page that is no probe hit, and the crawl also classified a page
\* without adding it.
C19_Witness ==
    /\ pc = "done"
    /\ \E u \in sensitive_pages : \A i \in CrawlRequests : requests[i].url # u
    /\ \E u \in sensitive_pages : \A i \in OrganicRequests : requests[i].url # u
    /\ \E i \in CrawlRequests : requests[i].ok /\ requests[i].url \notin sensitive_pages

====
